---- MODULE Spec2Model ----
(***************************************************************************)
(* heic2jpg: a directory watcher that converts newly created HEIC files   *)
(* to JPG with an external converter and optionally moves the source to   *)
(* the trash.  The model covers main() from the construction of the       *)
(* ImageConverter on (src/heic2jpg.py:198-214), ImageConverter            *)
(* (convert_existing, heic_to_jpg, delete_file) and FileHandler           *)
(* (patterns, process, on_created, on_modified).                          *)
(*                                                                         *)
(* Strings are sequences of one-character strings, so that split, lower,  *)
(* endswith, splitext and the glob / watchdog patterns are computed the   *)
(* way the code computes them.                                            *)
(***************************************************************************)
EXTENDS Integers, Sequences, FiniteSets, TLC

VARIABLES
    autodelete,   \* ImageConverter.autodelete (policy, fixed at startup)
    immediate,    \* main's `immediate` flag (policy, fixed at startup)
    initFiles,    \* history: the files that existed when the program started
    files,        \* paths that exist on disk under the watched root
    trash,        \* paths that send2trash moved to the trash
    mainpc,       \* position of main(): start, bulk, watching, stopping, stopped, crashed
    obs,          \* watchdog observer thread: unstarted, running, dead, stopped
    queue,        \* the observer's event queue: Seq of [path, kind]
    globDirs,     \* iglob: directories not yet listed
    globNames,    \* iglob: matching names of the current directory not yet yielded
    hpc,          \* position inside heic_to_jpg: idle, convert, delete
    cur,          \* the `path` argument of the running heic_to_jpg / delete_file
    ctx,          \* who called heic_to_jpg: "bulk" or "event"
    i,            \* delete_file: loop index of the next iteration (0-based)
    attempts,     \* delete_file: send2trash calls made by the current/last call
    pauses,       \* delete_file: time.sleep(delay) calls made by the current/last call
    fails,        \* delete_file: send2trash calls that raised in the current/last call
    oks,          \* delete_file: send2trash calls that returned in the current/last call
    delState,     \* delete_file: none, running, trashed, gaveup
    lastEv,       \* history: the last event taken from the queue and what became of it
    lastConv,     \* history: the last finished subprocess.run and its outcome
    bulkLog,      \* history: paths convert_existing passed to heic_to_jpg, in order
    envOps        \* number of file operations the environment has performed

vars == <<autodelete, immediate, initFiles, files, trash, mainpc, obs, queue, globDirs,
          globNames, hpc, cur, ctx, i, attempts, pauses, fails, oks, delState,
          lastEv, lastConv, bulkLog, envOps>>

----------------------------------------------------------------------------
(* Bounds of the model *)

\* file operations (create, modify, remove) the environment performs in a run
MaxEnvOps == 2

----------------------------------------------------------------------------
(* Strings *)

UpperChars == <<"A","B","C","D","E","F","G","H","I","J","K","L","M",
                "N","O","P","Q","R","S","T","U","V","W","X","Y","Z">>
LowerChars == <<"a","b","c","d","e","f","g","h","i","j","k","l","m",
                "n","o","p","q","r","s","t","u","v","w","x","y","z">>

\* str.lower() on one character
LowerChar(c) ==
    IF \E k \in 1..Len(UpperChars) : UpperChars[k] = c
    THEN LowerChars[CHOOSE k \in 1..Len(UpperChars) : UpperChars[k] = c]
    ELSE c

\* str.lower()
Lower(s) == [k \in 1..Len(s) |-> LowerChar(s[k])]

\* str.endswith(suffix)
EndsWith(s, suffix) ==
    /\ Len(s) >= Len(suffix)
    /\ SubSeq(s, Len(s) - Len(suffix) + 1, Len(s)) = suffix

\* str.rfind(c), 1-based; 0 when c does not occur
RFind(s, c) ==
    IF \E k \in 1..Len(s) : s[k] = c
    THEN CHOOSE k \in 1..Len(s) : s[k] = c /\ \A m \in (k+1)..Len(s) : s[m] # c
    ELSE 0

\* os.sep on the platforms with a ".Trash" directory
Sep == "/"

\* str.split(os.sep): the segments between separators, empty ones included
RECURSIVE Split(_)
Split(s) ==
    IF \A k \in 1..Len(s) : s[k] # Sep
    THEN <<s>>
    ELSE LET k == CHOOSE n \in 1..Len(s) :
                      s[n] = Sep /\ \A m \in 1..(n-1) : s[m] # Sep
         IN  <<SubSeq(s, 1, k-1)>> \o Split(SubSeq(s, k+1, Len(s)))

\* os.path.splitext(path): <<root, ext>>; leading dots of the name are no extension
SplitExt(p) ==
    LET sepIndex == RFind(p, Sep)
        dotIndex == RFind(p, ".")
    IN  IF /\ dotIndex > sepIndex
           /\ \E k \in (sepIndex+1)..(dotIndex-1) : p[k] # "."
        THEN <<SubSeq(p, 1, dotIndex-1), SubSeq(p, dotIndex, Len(p))>>
        ELSE <<p, <<>> >>

\* os.path.dirname / os.path.basename
DirName(p) == SubSeq(p, 1, RFind(p, Sep) - 1)
BaseName(p) == SubSeq(p, RFind(p, Sep) + 1, Len(p))

\* fnmatch of a name against "*" followed by one character class per position
StarSuffixMatch(name, classes) ==
    /\ Len(name) >= Len(classes)
    /\ \A k \in 1..Len(classes) :
           name[Len(name) - Len(classes) + k] \in classes[k]

----------------------------------------------------------------------------
(* Paths of the model: the watched root and the files a user may create *)

\* os.path.abspath(directory), the watched root
Root == <<"/","r">>

PA == <<"/","r","/","a",".","h","e","i","c">>
PB == <<"/","r","/","s","/","b",".","c",".","H","e","I","c">>
PH == <<"/","r","/",".","h",".","h","e","i","c">>
PT == <<"/","r","/",".","T","r","a","s","h","/","a",".","h","e","i","c">>
PN == <<"/","r","/","n","o","t","e",".","t","x","t">>
PJ == <<"/","r","/","a",".","j","p","g">>
PX == <<"/","r","/",".","h","e","i","c">>

\* files that may already exist when the program starts
PreExisting == {PA, PB, PH}
\* files the environment may create, modify or remove while the program runs
UserPaths == {PA, PB, PH, PT, PN, PJ, PX}
\* the directories of the tree (they exist throughout)
AllDirs == {DirName(p) : p \in UserPaths}

Kinds == {"created", "modified"}

----------------------------------------------------------------------------
(* FileHandler: the watchdog pattern filter and process() *)

DotHeic == <<".","h","e","i","c">>
DotJpg == <<".","j","p","g">>
TrashMarker == <<".","T","r","a","s","h">>

\* variant: the patterns are matched case-sensitively
WatchdogMatch_CaseSensitive(path) ==
    \E pat \in { <<{"."},{"h"},{"e"},{"i"},{"c"}>>, <<{"."},{"j"},{"p"},{"g"}>> } :
        StarSuffixMatch(BaseName(path), pat)

\* FileHandler.patterns = ["*.heic", "*.jpg"], matched by PatternMatchingEventHandler
\* with its default case_sensitive=False: name and patterns are lower-cased
Patterns == { <<{"."},{"h"},{"e"},{"i"},{"c"}>>, <<{"."},{"j"},{"p"},{"g"}>> }
WatchdogMatch(path) ==
    \E pat \in Patterns : StarSuffixMatch(Lower(BaseName(path)), pat)

\* variant: only the last segment is compared with the marker
InTrash_LastSegmentOnly(path) == BaseName(path) = TrashMarker

\* ".Trash" in event.src_path.split(os.sep)
InTrash(path) ==
    LET segs == Split(path) IN \E k \in 1..Len(segs) : segs[k] = TrashMarker

\* variant: the event type is not looked at
IsNewHeic_AnyKind(ev) == EndsWith(Lower(ev.path), DotHeic)

\* variant: the path is not lower-cased before the comparison
IsNewHeic_CaseSensitive(ev) ==
    /\ ev.kind = "created"
    /\ EndsWith(ev.path, DotHeic)

\* event.event_type == "created" and event.src_path.lower().endswith(".heic")
IsNewHeic(ev) ==
    /\ ev.kind = "created"
    /\ EndsWith(Lower(ev.path), DotHeic)

\* variant: every created file outside the trash is converted, whatever its name
ShouldConvert_AnyCreated(ev) == ~InTrash(ev.path) /\ ev.kind = "created"

\* process(): whether the event reaches heic_to_jpg
ShouldConvert(ev) == ~InTrash(ev.path) /\ IsNewHeic(ev)

----------------------------------------------------------------------------
(* ImageConverter *)

\* variant: the target extension is appended to the whole source path
DestPath_AppendOnly(path) == path \o DotJpg

\* f"{os.path.splitext(path)[0]}.jpg"
DestPath(path) == SplitExt(path)[1] \o DotJpg

\* what subprocess.run(["magick", "convert", src, dst]) can do: return with exit
\* code 0 (only when the source exists), return with a non-zero exit code, or
\* raise because the executable cannot be spawned
Outcomes(path) ==
    (IF path \in files THEN {"exit0"} ELSE {}) \cup {"nonzero", "raised"}

\* variant: the autodelete flag is not looked at
ShouldDelete_IgnoresFlag(outcome) == outcome = "exit0"

\* variant: the return code is not looked at
ShouldDelete_IgnoresExit(outcome) == autodelete

\* if self.autodelete and conversion.returncode == 0
ShouldDelete(outcome) == autodelete /\ outcome = "exit0"

\* max_retries = 10
MaxRetries == 10

\* time.sleep(delay) calls of loop iteration idx: one before send2trash and,
\* when send2trash raised and this was not the last attempt, one more
PausesOfIteration(ok, idx) ==
    IF ~ok /\ idx < MaxRetries - 1 THEN 2 ELSE 1

\* variant: no break after a successful send2trash
LoopContinues_NoBreak(ok, idx) == idx + 1 < MaxRetries

\* variant: range(max_retries + 1)
LoopContinues_OneMore(ok, idx) == ~ok /\ idx < MaxRetries

\* whether the for loop runs another iteration after iteration idx
LoopContinues(ok, idx) == ~ok /\ idx + 1 < MaxRetries

\* the glob pattern of convert_existing: *.[hH][eE][iI][cC]
GlobClasses == <<{"."},{"h","H"},{"e","E"},{"i","I"},{"c","C"}>>

\* glob._ishidden: a name that starts with a dot
IsHidden(name) == Len(name) > 0 /\ name[1] = "."

\* glob, one directory: the names iglob yields for directory d when it lists it
GlobInDir(d) ==
    { p \in files : /\ DirName(p) = d
                    /\ ~IsHidden(BaseName(p))
                    /\ StarSuffixMatch(BaseName(p), GlobClasses) }

\* glob "**": the directories iglob visits, the root first, hidden ones skipped
RECURSIVE SeqOfSet(_)
SeqOfSet(S) ==
    IF S = {} THEN <<>>
    ELSE LET x == CHOOSE y \in S : TRUE IN <<x>> \o SeqOfSet(S \ {x})
RECURSIVE ConcatAll(_)
ConcatAll(ss) == IF ss = <<>> THEN <<>> ELSE Head(ss) \o ConcatAll(Tail(ss))
RECURSIVE RListDir(_)
RListDir(d) ==
    LET subs == SeqOfSet({e \in AllDirs : /\ e # d
                                          /\ DirName(e) = d
                                          /\ ~IsHidden(BaseName(e))})
    IN  <<d>> \o ConcatAll([k \in 1..Len(subs) |-> RListDir(subs[k])])

----------------------------------------------------------------------------
(* The state after main() has built the ImageConverter (line 198) *)

NoEv == [path |-> <<>>, kind |-> "none", logged |-> FALSE, accepted |-> FALSE]
NoConv == [src |-> <<>>, dst |-> <<>>, outcome |-> "none", ctx |-> "none"]

Init ==
    /\ autodelete \in BOOLEAN
    /\ immediate \in BOOLEAN
    /\ files \in SUBSET PreExisting
    /\ initFiles = files
    /\ trash = {}
    /\ mainpc = "start"
    /\ obs = "unstarted"
    /\ queue = <<>>
    /\ globDirs = <<>>
    /\ globNames = {}
    /\ hpc = "idle"
    /\ cur = <<>>
    /\ ctx = "none"
    /\ i = 0
    /\ attempts = 0
    /\ pauses = 0
    /\ fails = 0
    /\ oks = 0
    /\ delState = "none"
    /\ lastEv = NoEv
    /\ lastConv = NoConv
    /\ bulkLog = <<>>
    /\ envOps = 0

\* the notification source delivers events while the observer is subscribed
Subscribed == obs \in {"running", "dead"} /\ mainpc = "watching"
Enq(q, p, k) == IF Subscribed THEN Append(q, [path |-> p, kind |-> k]) ELSE q

polVars == <<autodelete, immediate, initFiles>>
globVars == <<globDirs, globNames, bulkLog>>
delVars == <<i, attempts, pauses, fails, oks, delState>>

\* the locals of a finished delete_file call are gone once its thread moves on
DelForget ==
    /\ i' = 0
    /\ attempts' = 0
    /\ pauses' = 0
    /\ fails' = 0
    /\ oks' = 0
    /\ delState' = "none"

----------------------------------------------------------------------------
(* main() *)

\* variant: main() does not wait for the observer thread
ObserverThreadEnded_NoWait == TRUE

\* what observer.join() waits for: the observer thread has returned from the
\* handler call it was in, or has ended already with an unhandled exception
ObserverThreadEnded == hpc = "idle" \/ obs = "dead"

\* variant: the observer thread goes on dispatching after observer.stop()
KeepsRunning_AfterStop == mainpc \in {"watching", "stopping", "stopped"}

\* the observer thread takes events from observer.start() to observer.stop()
KeepsRunning == mainpc = "watching"

\* variant: a second thread dispatches while a handler call is in progress
HandlerFree_Always == TRUE

\* the one observer thread takes the next event only after the handler call
\* for the previous one has returned
HandlerFree == hpc = "idle"

\* if immediate: image_converter.convert_existing()  -- iglob starts at the root
BulkStart ==
    /\ mainpc = "start"
    /\ immediate
    /\ mainpc' = "bulk"
    /\ globDirs' = RListDir(Root)
    /\ globNames' = {}
    /\ UNCHANGED <<polVars, files, trash, obs, queue, hpc, cur, ctx, delVars,
                   lastEv, lastConv, bulkLog, envOps>>

\* iglob reaches the next directory and lists its matching names
BulkListDir ==
    /\ mainpc = "bulk"
    /\ hpc = "idle"
    /\ globNames = {}
    /\ globDirs # <<>>
    /\ globNames' = GlobInDir(Head(globDirs))
    /\ globDirs' = Tail(globDirs)
    /\ DelForget
    /\ UNCHANGED <<polVars, files, trash, mainpc, obs, queue, hpc, cur, ctx,
                   lastEv, lastConv, bulkLog, envOps>>

\* for file in glob.iglob(...): self.heic_to_jpg(file)
BulkNext ==
    /\ mainpc = "bulk"
    /\ hpc = "idle"
    /\ \E p \in globNames :
          /\ globNames' = globNames \ {p}
          /\ bulkLog' = Append(bulkLog, p)
          /\ cur' = p
    /\ hpc' = "convert"
    /\ ctx' = "bulk"
    /\ DelForget
    /\ UNCHANGED <<polVars, files, trash, mainpc, obs, queue, globDirs,
                   lastEv, lastConv, envOps>>

\* whether main() is past convert_existing (or skipped it)
BulkOver ==
    \/ mainpc = "start" /\ ~immediate
    \/ mainpc = "bulk" /\ hpc = "idle" /\ globNames = {} /\ globDirs = <<>>

\* observer.schedule(handler, directory, recursive=True); observer.start()
StartObserver ==
    /\ BulkOver
    /\ mainpc' = "watching"
    /\ obs' = "running"
    /\ DelForget
    /\ UNCHANGED <<polVars, files, trash, queue, globVars, hpc, cur, ctx,
                   lastEv, lastConv, envOps>>

\* observer.schedule / observer.start raise (root missing, no subscription):
\* the exception leaves main()
StartFails ==
    /\ BulkOver
    /\ mainpc' = "crashed"
    /\ DelForget
    /\ UNCHANGED <<polVars, files, trash, obs, queue, globVars, hpc, cur, ctx,
                   lastEv, lastConv, envOps>>

\* KeyboardInterrupt in the sleep loop: observer.stop()
Interrupt ==
    /\ mainpc = "watching"
    /\ mainpc' = "stopping"
    /\ UNCHANGED <<polVars, files, trash, obs, queue, globVars, hpc, cur, ctx,
                   delVars, lastEv, lastConv, envOps>>

\* observer.join() returns once the observer thread has ended: it ends after the
\* handler call in progress, or has ended already with an unhandled exception
Join ==
    /\ mainpc = "stopping"
    /\ ObserverThreadEnded
    /\ mainpc' = "stopped"
    /\ obs' = "stopped"
    /\ DelForget
    /\ UNCHANGED <<polVars, files, trash, queue, globVars, hpc, cur, ctx,
                   lastEv, lastConv, envOps>>

----------------------------------------------------------------------------
(* The observer thread: FileHandler *)

\* The observer thread takes the next event; PatternMatchingEventHandler
\* dispatches it to on_created / on_modified when a pattern matches, and
\* process() runs up to the call of heic_to_jpg
Dispatch ==
    /\ KeepsRunning
    /\ obs = "running"
    /\ HandlerFree
    /\ queue # <<>>
    /\ LET ev == Head(queue)
           logged == WatchdogMatch(ev.path)
           accepted == logged /\ ShouldConvert(ev)
       IN  /\ queue' = Tail(queue)
           /\ lastEv' = [path |-> ev.path, kind |-> ev.kind,
                         logged |-> logged, accepted |-> accepted]
           /\ IF accepted
              THEN hpc' = "convert" /\ cur' = ev.path /\ ctx' = "event"
              ELSE UNCHANGED <<hpc, cur, ctx>>
    /\ DelForget
    /\ UNCHANGED <<polVars, files, trash, mainpc, obs, globVars,
                   lastConv, envOps>>

----------------------------------------------------------------------------
(* ImageConverter.heic_to_jpg and delete_file, run by whichever thread called *)

\* what send2trash.send2trash(path) can do: move the file (only when it exists)
\* or raise
TrashOutcomes(path) == (IF path \in files THEN {TRUE} ELSE {}) \cup {FALSE}

\* variant: a converter that exits 0 without writing the destination
ConverterWrites_Nothing(outcome, dst) == {}

\* the file the external converter leaves behind: the destination when it
\* exits 0
ConverterWrites(outcome, dst) == IF outcome = "exit0" THEN {dst} ELSE {}

\* subprocess.run returns or raises, and heic_to_jpg goes on to line 94
Convert ==
    /\ hpc = "convert"
    /\ \E outcome \in Outcomes(cur) :
          LET dst == DestPath(cur) IN
          /\ lastConv' = [src |-> cur, dst |-> dst, outcome |-> outcome, ctx |-> ctx]
          /\ IF outcome = "raised"
             THEN \* nothing between subprocess.run and the caller's caller catches
                  \* it: in convert_existing it leaves main(), in a handler call
                  \* it ends the observer thread
                  /\ hpc' = "idle"
                  /\ IF ctx = "bulk"
                     THEN mainpc' = "crashed" /\ obs' = obs
                     ELSE obs' = "dead" /\ mainpc' = mainpc
                  /\ UNCHANGED <<files, queue, delVars>>
             ELSE /\ files' = files \cup ConverterWrites(outcome, dst)
                  /\ queue' = IF outcome = "exit0"
                              THEN Enq(queue, dst, IF dst \in files THEN "modified"
                                                                    ELSE "created")
                              ELSE queue
                  /\ IF ShouldDelete(outcome)
                     THEN /\ hpc' = "delete"
                          /\ i' = 0
                          /\ attempts' = 0
                          /\ pauses' = 0
                          /\ fails' = 0
                          /\ oks' = 0
                          /\ delState' = "running"
                     ELSE hpc' = "idle" /\ UNCHANGED delVars
                  /\ UNCHANGED <<mainpc, obs>>
    /\ UNCHANGED <<polVars, trash, globVars, cur, ctx, lastEv, envOps>>

\* one iteration of the for loop of delete_file: sleep, send2trash, and on an
\* exception the warning and second sleep, or the error of the last attempt
DeleteStep ==
    /\ hpc = "delete"
    /\ \E ok \in TrashOutcomes(cur) :
          /\ attempts' = attempts + 1
          /\ pauses' = pauses + PausesOfIteration(ok, i)
          /\ fails' = IF ok THEN fails ELSE fails + 1
          /\ oks' = IF ok THEN oks + 1 ELSE oks
          /\ files' = IF ok THEN files \ {cur} ELSE files
          /\ trash' = IF ok THEN trash \cup {cur} ELSE trash
          /\ IF LoopContinues(ok, i)
             THEN i' = i + 1 /\ hpc' = "delete" /\ delState' = "running"
             ELSE /\ i' = i
                  /\ hpc' = "idle"
                  /\ delState' = IF ok THEN "trashed" ELSE "gaveup"
    /\ UNCHANGED <<polVars, mainpc, obs, queue, globVars, cur, ctx, lastEv,
                   lastConv, envOps>>

----------------------------------------------------------------------------
(* The environment: a user or another program working in the watched tree *)

Running == mainpc \notin {"stopped", "crashed"}

Create(p) ==
    /\ Running
    /\ envOps < MaxEnvOps
    /\ p \notin files
    /\ files' = files \cup {p}
    /\ queue' = Enq(queue, p, "created")
    /\ envOps' = envOps + 1
    /\ UNCHANGED <<polVars, trash, mainpc, obs, globVars, hpc, cur, ctx,
                   delVars, lastEv, lastConv>>

Modify(p) ==
    /\ Subscribed
    /\ envOps < MaxEnvOps
    /\ p \in files
    /\ queue' = Enq(queue, p, "modified")
    /\ envOps' = envOps + 1
    /\ UNCHANGED <<polVars, files, trash, mainpc, obs, globVars, hpc, cur, ctx,
                   delVars, lastEv, lastConv>>

Remove(p) ==
    /\ Running
    /\ envOps < MaxEnvOps
    /\ p \in files
    /\ files' = files \ {p}
    /\ envOps' = envOps + 1
    /\ UNCHANGED <<polVars, trash, mainpc, obs, queue, globVars, hpc, cur, ctx,
                   delVars, lastEv, lastConv>>

----------------------------------------------------------------------------

Next ==
    \/ BulkStart
    \/ BulkListDir
    \/ BulkNext
    \/ StartObserver
    \/ StartFails
    \/ Interrupt
    \/ Join
    \/ Dispatch
    \/ Convert
    \/ DeleteStep
    \/ \E p \in UserPaths : Create(p)
    \/ \E p \in UserPaths : Modify(p)
    \/ \E p \in UserPaths : Remove(p)

Spec == Init /\ [][Next]_vars

\* The same program when the work it has begun goes on: the external converter
\* process exits, send2trash returns or raises, and observer.join() returns
\* once the observer thread has ended.  Nothing is assumed of the environment,
\* of the interrupt, or of when an event is taken from the queue.
LiveSpec ==
    /\ Spec
    /\ WF_vars(Join)
    /\ WF_vars(Convert)
    /\ WF_vars(DeleteStep)

----------------------------------------------------------------------------
(* Vocabulary of the properties *)

\* the path has a segment equal to the trash-directory marker
HasTrashSegment(path) ==
    \E a \in 1..Len(path), b \in 0..Len(path) :
        /\ SubSeq(path, a, b) = TrashMarker
        /\ a = 1 \/ path[a-1] = Sep
        /\ b = Len(path) \/ path[b+1] = Sep

\* the path's extension is the source extension in some letter case
HasSourceExt(path) == Lower(SplitExt(path)[2]) = DotHeic

\* how often path p occurs in the sequence log
Occurrences(log, p) == Cardinality({k \in 1..Len(log) : log[k] = p})

EventSeen == lastEv.kind # "none"

\* every path an event of the model can carry: the user's files and the
\* converter's outputs; and those of them the properties speak about
EventPaths == UserPaths \cup {DestPath(p) : p \in UserPaths}
TrashSegmentPaths == {p \in EventPaths : HasTrashSegment(p)}
SourceExtPaths == {p \in EventPaths : HasSourceExt(p)}
\* the paths that end in the source or the target suffix, in any letter case
SourceSuffixPaths == {p \in EventPaths : EndsWith(Lower(p), DotHeic)}
TargetSuffixPaths == {p \in EventPaths : EndsWith(Lower(p), DotJpg)}

----------------------------------------------------------------------------
(* Properties *)

\* C1 (as claimed): in the Watching state a conversion whose executable cannot
\* be spawned is a failed conversion and is not fatal: the observer thread keeps
\* running and goes on to filter and convert the events that follow.
C1_SpawnFailureNotFatal ==
    (mainpc = "watching" /\ lastConv.ctx = "event" /\ lastConv.outcome = "raised")
        => obs = "running"

\* C2: the Deleter runs on a path only when autodelete is set and the conversion
\* of that very path, just run by the same caller, exited with code 0; with
\* autodelete unset nothing is ever moved to the trash.
C2_DeleteOnlyAfterSuccessWithFlag ==
    /\ (hpc = "delete" \/ delState # "none") =>
           /\ autodelete
           /\ lastConv.outcome = "exit0"
           /\ lastConv.src = cur
           /\ lastConv.ctx = ctx
    /\ ~autodelete => trash = {}

C2_Witness ==
    /\ delState = "trashed"
    /\ ctx = "event"
    /\ cur \in trash
    /\ bulkLog # <<>>

\* C3: after a conversion that ended with a non-zero exit code the deletion step
\* is skipped, no fault ends the thread that ran it, and while main() is in its
\* watch loop the observer thread keeps running and takes the next event.
C3_NonZeroExitIsLocalFailure ==
    lastConv.outcome = "nonzero" =>
        /\ hpc # "delete"
        /\ delState = "none"
        /\ lastConv.ctx = "event" => obs # "dead"
        /\ (lastConv.ctx = "event" /\ mainpc = "watching") => obs = "running"

\* the event's path was removed before the event was processed
C3_Witness ==
    /\ autodelete
    /\ lastConv.outcome = "nonzero"
    /\ lastConv.ctx = "event"
    /\ lastConv.src \notin files
    /\ hpc = "idle"
    /\ obs = "running"

\* C4: an event whose path has a segment equal to the trash marker is rejected,
\* whatever its kind and extension: the handler never starts a conversion of it.
C4_TrashEventsRejected ==
    /\ EventSeen => lastEv.path \in EventPaths
    /\ (EventSeen /\ lastEv.path \in TrashSegmentPaths) => ~lastEv.accepted
    /\ (hpc = "convert" /\ ctx = "event") => cur \notin TrashSegmentPaths

C4_Witness ==
    /\ lastEv.kind = "created"
    /\ lastEv.logged
    /\ lastEv.path \in TrashSegmentPaths
    /\ lastEv.path \in SourceExtPaths
    /\ hpc = "idle"

\* C5: an event of kind Modified is rejected on every path: a conversion started
\* by the handler is always the conversion of a Created event.
C5_ModifiedEventsRejected ==
    /\ lastEv.kind = "modified" => ~lastEv.accepted
    /\ (hpc = "convert" /\ ctx = "event") =>
           (lastEv.kind = "created" /\ lastEv.path = cur)

C5_Witness ==
    /\ lastEv.kind = "modified"
    /\ lastEv.logged
    /\ lastEv.path \in SourceExtPaths
    /\ lastEv.path \notin TrashSegmentPaths
    /\ lastEv.path \in files
    /\ hpc = "idle"

\* C6: a Created event whose path has no trash-marker segment and whose
\* extension is the source extension in any letter case is accepted, and the
\* converter is invoked on that path.
C6_CreatedSourceAccepted ==
    /\ EventSeen => lastEv.path \in EventPaths
    /\ (/\ lastEv.kind = "created"
        /\ lastEv.path \notin TrashSegmentPaths
        /\ lastEv.path \in SourceExtPaths) =>
           /\ lastEv.accepted
           /\ cur = lastEv.path
           /\ ctx = "event"
           /\ \/ hpc = "convert"
              \/ lastConv.src = lastEv.path /\ lastConv.ctx = "event"

C6_Witness ==
    /\ lastEv.kind = "created"
    /\ lastEv.path = PB
    /\ hpc = "convert"
    /\ cur = PB

\* C7 (as claimed): a finished delete_file call has paused exactly once per
\* attempt: 10 pauses when all 10 attempts fail, k pauses when attempt k succeeds.
C7_OnePausePerAttempt ==
    delState \in {"trashed", "gaveup"} => pauses = attempts

\* C8: one delete_file call makes at most 10 attempts, makes a further attempt
\* only while every attempt so far has failed, and none after one succeeded.
C8_BoundedAttemptsStopOnSuccess ==
    /\ attempts <= 10
    /\ attempts = fails + oks
    /\ oks <= 1
    /\ hpc = "delete" => (oks = 0 /\ attempts < 10)
    /\ delState = "trashed" => oks = 1

C8_Witness ==
    /\ delState = "trashed"
    /\ fails = 2
    /\ attempts = 3

\* C9: a failed attempt leaves the files and the trash as they were, and when
\* the 10th attempt fails the call returns to its caller: no fault ends the
\* observer thread or main, so the following events are still processed.
C9_GiveUpIsSilent ==
    [][(hpc = "delete" /\ fails' > fails) =>
          /\ files' = files
          /\ trash' = trash
          /\ obs' = obs
          /\ mainpc' = mainpc
          /\ queue' = queue
          /\ fails' = 10 <=> delState' = "gaveup"
          /\ delState' = "gaveup" => (hpc' = "idle" /\ attempts' = 10)]_vars

C9_Witness ==
    /\ delState = "gaveup"
    /\ ctx = "event"
    /\ cur \in files
    /\ cur \notin trash
    /\ obs = "running"
    /\ mainpc = "watching"
    /\ queue # <<>>
    /\ ENABLED Dispatch

\* C10 (as claimed): with convertExisting set and the environment idle, once
\* the watch has started every matching file that existed at the start has been
\* passed to the converter exactly once by the bulk step; no event is processed
\* before the bulk step is over; with convertExisting unset the bulk step
\* converts nothing.
C10_BulkConvertsEveryExistingOnce ==
    /\ (immediate /\ envOps = 0 /\ mainpc \in {"watching", "stopping", "stopped"}) =>
           \A p \in initFiles : p \in SourceExtPaths => Occurrences(bulkLog, p) = 1
    /\ EventSeen => (globDirs = <<>> /\ globNames = {})
    /\ ~immediate => bulkLog = <<>>

\* C11 (as claimed): every notification taken from the queue, whatever its
\* path, has produced the "has been <kind>" log line of process().
C11_EveryEventLogged == EventSeen => lastEv.logged

\* C11 (amended): a notification produces the log line exactly when its name
\* ends in .heic or .jpg in some letter case; a notification for another name
\* (note.txt) never reaches process() and leaves no log line.  No event is
\* accepted without having been logged.
C11_PatternEventsLogged ==
    /\ EventSeen =>
           (lastEv.logged <=>
               lastEv.path \in SourceSuffixPaths \cup TargetSuffixPaths)
    /\ lastEv.accepted => lastEv.logged

\* the event for the .jpg the converter has just written: logged and rejected
C11_Witness ==
    /\ lastEv.path = lastConv.dst
    /\ lastEv.kind = "created"
    /\ lastEv.logged
    /\ ~lastEv.accepted

\* C12: events are processed one at a time in arrival order: the queue only
\* grows at its end and shrinks at its head, the event taken is the oldest one,
\* it is taken only when no conversion or deletion is in progress, and a
\* conversion in progress keeps its path until it has finished.
C12_SequentialInArrivalOrder ==
    [][/\ queue' # queue =>
              \/ /\ queue # <<>>
                 /\ queue' = Tail(queue)
                 /\ hpc = "idle"
                 /\ lastEv'.path = Head(queue).path
                 /\ lastEv'.kind = Head(queue).kind
              \/ /\ Len(queue') = Len(queue) + 1
                 /\ SubSeq(queue', 1, Len(queue)) = queue
       /\ lastEv' # lastEv => (queue # <<>> /\ queue' = Tail(queue))
       /\ hpc # "idle" => (cur' = cur /\ ctx' = ctx)]_vars

\* an event waits in the queue while the deletion of the previous one retries
C12_Witness ==
    /\ hpc = "delete"
    /\ ctx = "event"
    /\ fails > 0
    /\ queue # <<>>

\* C13: once an interrupt has made main() call observer.stop(), the program
\* reaches Stopped, and it is Stopped only with the observer thread ended and no
\* conversion or deletion left part-way: the work in flight at the interrupt
\* keeps its path and runs to its end first.
C13_InterruptStopsAfterInFlightWork ==
    /\ [](mainpc = "stopped" => (hpc = "idle" /\ obs = "stopped"))
    /\ [][(mainpc = "stopping" /\ hpc # "idle") =>
              (mainpc' = "stopping" /\ cur' = cur /\ ctx' = ctx)]_vars
    /\ (mainpc = "stopping") ~> (mainpc = "stopped")

\* the interrupt arrived while the deletion of an event's file was retrying
C13_Witness ==
    /\ mainpc = "stopping"
    /\ obs = "running"
    /\ hpc = "delete"
    /\ ctx = "event"
    /\ fails > 0

\* the lifecycle state of the watcher that a position of main() stands for:
\* Idle until observer.start() has returned (also when main() was left by an
\* exception before that), Stopped from observer.stop() on
Life ==
    CASE mainpc \in {"start", "bulk", "crashed"} -> "Idle"
      [] mainpc = "watching" -> "Watching"
      [] mainpc \in {"stopping", "stopped"} -> "Stopped"

C15_AutodeleteEndToEnd ==
    /\ [][/\ (lastConv' # lastConv /\ lastConv'.outcome = "exit0") =>
                 lastConv'.dst \in files'
          /\ trash' # trash =>
                 /\ autodelete
                 /\ trash' = trash \cup {cur}
                 /\ lastConv = lastConv'
                 /\ lastConv.src = cur
                 /\ lastConv.outcome = "exit0"]_vars
    /\ (autodelete /\ ctx = "event" /\ hpc = "convert" /\ lastEv.accepted) ~>
           /\ hpc = "idle"
           /\ lastConv.src = cur
           /\ lastConv.outcome = "exit0" =>
                  /\ delState \in {"trashed", "gaveup"}
                  /\ delState = "trashed" => (cur \in trash /\ cur \notin files)

\* an accepted event's file was converted and went to the trash on a retry
C15_Witness ==
    /\ autodelete
    /\ ctx = "event"
    /\ lastEv.accepted
    /\ lastEv.path = cur
    /\ hpc = "idle"
    /\ delState = "trashed"
    /\ fails > 0
    /\ cur \in trash
    /\ DestPath(cur) \in files

\* the path with everything from its last dot on replaced by the target
\* extension
FinalExtReplaced(p) == SubSeq(p, 1, RFind(p, ".") - 1) \o DotJpg

\* a file name made of dots followed by a part without any dot, such as ".heic"
DotOnlyName(p) ==
    LET name == BaseName(p)
    IN  \A k \in 1..Len(name) : name[k] = "." => \A m \in 1..k : name[m] = "."

\* once a converter call has been made for the path taken up last, its source
\* argument is the path of that event, or the path the enumeration produced
SourceUnchanged ==
    hpc # "convert" =>
        /\ (lastConv.ctx = "event" /\ lastEv.accepted) =>
               lastConv.src = lastEv.path
        /\ lastConv.ctx = "bulk" => lastConv.src = bulkLog[Len(bulkLog)]

\* C16 as stated: every converter call gets as destination the source path
\* with its final extension replaced by the target extension, in the directory
\* of the source, and as source the event or enumeration path unchanged.
C16_DestinationReplacesFinalExt ==
    lastConv # NoConv =>
        /\ lastConv.dst = FinalExtReplaced(lastConv.src)
        /\ DirName(lastConv.dst) = DirName(lastConv.src)
        /\ SourceUnchanged

\* C16 amended: as stated, except that for a name whose only dots are leading
\* ones (".heic") the destination is the whole source path with the target
\* extension appended.
C16_DestinationBySplitext ==
    lastConv # NoConv =>
        /\ lastConv.dst = IF DotOnlyName(lastConv.src)
                          THEN lastConv.src \o DotJpg
                          ELSE FinalExtReplaced(lastConv.src)
        /\ DirName(lastConv.dst) = DirName(lastConv.src)
        /\ SourceUnchanged

\* the converter was called for the created file /r/.heic
C16_Witness ==
    /\ lastConv.src = PX
    /\ lastConv.dst = PX \o DotJpg
    /\ lastConv.outcome = "exit0"
    /\ lastConv.dst \in files

\* C17: a spawn failure of the converter during the bulk step does not leave
\* main(): after it the program is still on its way through the enumeration
\* or into the watch.
C17_BulkSpawnFailureNotFatal ==
    (lastConv.ctx = "bulk" /\ lastConv.outcome = "raised") => mainpc # "crashed"

\* C18: when the enumeration of the bulk step has run to its end in a tree
\* nobody else touches, the paths it produced are exactly the files of the
\* tree whose names end in the source extension in some letter case,
\* dot-prefixed names and directories included; and it never produces a path
\* without that extension.
C18_BulkEnumeratesAllMatching ==
    /\ (immediate /\ envOps = 0 /\ BulkOver) =>
           {bulkLog[k] : k \in 1..Len(bulkLog)} = initFiles \cap SourceSuffixPaths
    /\ \A k \in 1..Len(bulkLog) : bulkLog[k] \in SourceSuffixPaths

\* C19: in the watch a converter call begins only by taking an event from the
\* queue, and only an event that is Created, ends in the source extension and
\* has no trash-marker segment; the call is made for that event's path and is
\* over before anything else begins, so one event yields at most one call.
\* Events for other names, for the .jpg files the converter writes and for
\* files in the trash therefore start no conversion.
C19_OnlyNewSourceEventsConvert ==
    [][/\ (hpc # "convert" /\ hpc' = "convert" /\ ctx' = "event") =>
              /\ mainpc = "watching"
              /\ queue # <<>>
              /\ queue' = Tail(queue)
              /\ Head(queue).kind = "created"
              /\ Head(queue).path \in SourceSuffixPaths \ TrashSegmentPaths
              /\ Head(queue).path \notin TargetSuffixPaths
              /\ cur' = Head(queue).path
       /\ (lastConv' # lastConv /\ ctx = "event") =>
              /\ hpc = "convert"
              /\ hpc' # "convert"
              /\ queue' \in {queue, Append(queue, [path |-> lastConv'.dst, kind |-> "created"]),
                                    Append(queue, [path |-> lastConv'.dst, kind |-> "modified"])}
              /\ lastConv'.src = cur
              /\ lastEv.accepted
              /\ lastEv.path = cur
       /\ (queue # <<>> /\ queue' = Tail(queue) /\ ~lastEv'.accepted) =>
              hpc' = hpc]_vars

\* the Created event for the .jpg file an event's conversion wrote has been
\* taken from the queue and has started nothing
C19_Witness ==
    /\ lastConv.ctx = "event"
    /\ lastConv.outcome = "exit0"
    /\ lastEv.path = lastConv.dst
    /\ lastEv.kind = "created"
    /\ ~lastEv.accepted
    /\ hpc = "idle"
    /\ queue = <<>>

\* the source files that both the enumeration and the handler take: the name
\* ends in the source extension, no segment of the path starts with a dot
PlainSourcePaths ==
    {p \in SourceSuffixPaths :
        LET segs == Split(p)
        IN  \A k \in 1..Len(segs) : segs[k] = <<>> \/ Head(segs[k]) # "."}

\* C20: with convertExisting set, once the watch runs and nothing is left to
\* do (no event waiting, no conversion going on) and no event has been
\* handled yet, every plain source file created since the start and still
\* there has been passed to the converter by the bulk step.  A state that
\* breaks this holds a file that no later step of the program will convert.
C20_NoFileLostBeforeWatch ==
    (/\ immediate
     /\ mainpc = "watching"
     /\ obs = "running"
     /\ hpc = "idle"
     /\ queue = <<>>
     /\ ~EventSeen) =>
        \A p \in (files \ initFiles) \cap PlainSourcePaths :
            \E k \in 1..Len(bulkLog) : bulkLog[k] = p

====
